---- MODULE Spec2Model ----
(***************************************************************************)
(* SnowGlass (src/components/SnowGlass.tsx) mounted by App (src/App.tsx):  *)
(* a requestAnimationFrame render loop (animate) reading refs and React    *)
(* state that tracker callbacks, key handlers and the symmetry button      *)
(* write, and an off-screen fog canvas that persists between frames.       *)
(*                                                                         *)
(* Numbers.  Hand landmarks, intensities, opacities and Math.random() are   *)
(* fixed-point thousandths (Unit = 1.0).  Face landmarks are in units of   *)
(* 1/FaceUnit, three times finer, so that the lip distance 1/60, where the *)
(* intensity is exactly 0.1, is a value of the model.  Canvas sizes are    *)
(* whole pixels; positions, radii and speeds on a canvas are thousandths   *)
(* of a pixel, so (1 - x) * width in the source is (Unit - x) * width      *)
(* here.  Time is performance.now() in milliseconds; a display refresh     *)
(* (Tick) advances it by FrameMs.                                          *)
(***************************************************************************)
EXTENDS Integers, Sequences, FiniteSets, TLC

VARIABLES
    now,               \* performance.now(), ms
    mounted,           \* SnowGlass is mounted (effects ran, cleanups did not)
    ctxAvailable,      \* getContext('2d') yields a context (lines 150-152, 276-277)
    windowSize,        \* <<window.innerWidth, window.innerHeight>>
    canvas,            \* canvasRef.current: <<width, height>>
    fogCanvas,         \* fogCanvasRef.current: size and what its raster holds
    breathIntensity,   \* useState, line 17
    handDetected,      \* useState, line 18
    peaceDetected,     \* useState, line 19
    isSymmetry,        \* useState of App, src/App.tsx line 9
    animateDeps,       \* what the animate callback of the last effect run closes over
    mouthPos,          \* ref, line 22
    indexTipPos,       \* ref, line 23 (Null = null)
    smoothedIndexTip,  \* ref, line 24 (Null = null)
    handPresenceTime,  \* ref, line 25 (0 = unset)
    snowflakes,        \* ref, line 26: the particles, as a bag (particle -> copies)
    isBreathingManual, \* ref, line 28
    released,          \* calls of camera.stop(), hands.close(), faceMesh.close()
    requestRef,        \* ref, line 14 (0 = undefined)
    raf,               \* the browser's list of animation frame callbacks
    stepsInRefresh,    \* observation: render steps run in the current display refresh
    step,              \* observation: what the step just taken did, when it was a
                       \* render step or a hand result (NoStep after any other)
    seenSince,         \* observation: when a drawing render step first saw the
                       \* fingertip since the last hand result without a hand (0 = not yet)
    wiped,             \* observation: a render step erased since seenSince was set
    heldAt,            \* observation: the one fingertip every hand result reported since
                       \* the smoothed fingertip was last absent (Null = none yet,
                       \* Moved = more than one, or the viewport changed)
    faceLost,          \* observation: a face result found no face, and no face
                       \* result since gave an intensity above the deposit threshold
    chase              \* observation: the target the erasing render steps follow, the
                       \* gap to it before the first of them, and how many they are
                       \* (Null = the last render step saw no fingertip)

vars == <<now, mounted, ctxAvailable, windowSize, canvas, fogCanvas,
          breathIntensity, handDetected, peaceDetected, isSymmetry, animateDeps,
          mouthPos, indexTipPos, smoothedIndexTip, handPresenceTime,
          snowflakes, isBreathingManual, released, requestRef, raf,
          stepsInRefresh, step, seenSince, wiped, heldAt, faceLost, chase>>

(***************************************************************************)
(* Program constants                                                       *)
(***************************************************************************)
WIPE_DELAY_MS == 1000
SMOOTHING_FACTOR_PCT == 15
MANUAL_INTENSITY == 800
DEPOSIT_THRESHOLD == 100
FOG_OPACITY_LIMIT == 850
SNOW_COUNT == 60
Unit == 1000
FaceUnit == 3 * Unit

(***************************************************************************)
(* Bounds of the model                                                     *)
(***************************************************************************)
MaxTicks == 8
\* The widest lip distance a face result reports, in 1/FaceUnit.
MaxLipDistance == 240
\* Display refreshes of the run that follows the smoothed fingertip.
SmoothTicks == 34

\* Two display refreshes span exactly the wipe delay, so a render step can
\* run at exactly WIPE_DELAY_MS of presence.
FrameMs == WIPE_DELAY_MS \div 2
MaxTime == (MaxTicks + 1) * FrameMs
SmoothTime == (SmoothTicks + 1) * FrameMs

Null == [absent |-> TRUE]
Moved == [moved |-> TRUE]
Pt(px, py) == [x |-> px, y |-> py]

Viewports == {<<800, 600>>, <<400, 300>>}

\* Inputs of the tracker: the landmarks the handlers read.
\* A hand: x and y of the index tip (8), y of the other tips (12, 16, 20),
\* y of the second joints (6, 10, 14, 18).
Hand(px8, py8, py12, py16, py20) ==
    [x8 |-> px8, y8 |-> py8, y12 |-> py12, y16 |-> py16, y20 |-> py20,
     y6 |-> 400, y10 |-> 400, y14 |-> 400, y18 |-> 400]
PeaceHand == Hand(700, 300, 300, 500, 500)
RingUpHand == Hand(700, 300, 300, 300, 500)
PointingHand == Hand(200, 500, 500, 500, 500)
LevelHand == Hand(700, 300, 400, 500, 500)
HandShapes == {PeaceHand, RingUpHand, PointingHand, LevelHand}
\* A face: the inner lips (13, 14), in 1/FaceUnit.
Face(ux, uy, lx, ly) == [upper |-> Pt(ux, uy), lower |-> Pt(lx, ly)]
\* Lips d apart, about the middle of the frame.
LipsApart(d) ==
    Face(FaceUnit \div 2, FaceUnit \div 2 - d \div 2,
         FaceUnit \div 2, FaceUnit \div 2 - d \div 2 + d)
\* Lips 0.01 apart (intensity 0), 1/60 apart (exactly 0.1), a step wider
\* (0.105) and 0.04 apart (0.45).
ClosedLips == LipsApart(30)
ThresholdLips == LipsApart(50)
PartedLips == LipsApart(51)
OpenLips == LipsApart(120)
\* A mouth seen askew: the lips 0.03 apart in x and 0.04 in y.
AskewLips == Face(1500, 1500, 1590, 1620)
Faces == {LipsApart(d) : d \in 0..MaxLipDistance} \cup {AskewLips}
\* Math.random(), in thousandths
Randoms == {0, 999}

Max(a, b) == IF a >= b THEN a ELSE b
Min(a, b) == IF a <= b THEN a ELSE b

(***************************************************************************)
(* Pure parts of the handlers                                              *)
(***************************************************************************)
RECURSIVE SqrtIn(_, _, _)
SqrtIn(n, lo, hi) ==
    IF lo = hi THEN lo
    ELSE LET mid == (lo + hi + 1) \div 2
         IN IF mid * mid <= n THEN SqrtIn(n, mid, hi) ELSE SqrtIn(n, lo, mid - 1)
\* Math.sqrt on the squares the inputs produce (exact on perfect squares).
Sqrt(n) == SqrtIn(n, 0, Min(n, 2 * FaceUnit))

\* lines 114-116: the distance between the lips, in 1/FaceUnit
LipDistance(f) ==
    Sqrt((f.upper.x - f.lower.x) * (f.upper.x - f.lower.x)
         + (f.upper.y - f.lower.y) * (f.upper.y - f.lower.y))
\* (dist - 0.01) * 15, in thousandths
Scaled(dist) == ((dist - FaceUnit \div 100) * 15 * Unit) \div FaceUnit
\* IntensityOf with a fault: the value is not clamped from above.
IntensityUnclamped(dist) == Max(Scaled(dist), 0)
\* line 117: Math.min(Math.max((dist - 0.01) * 15, 0), 1)
IntensityOf(dist) == Min(Max(Scaled(dist), 0), Unit)
\* lines 121-124, in 1/FaceUnit
MouthCenter(f) == Pt((f.upper.x + f.lower.x) \div 2, (f.upper.y + f.lower.y) \div 2)

\* IsPeaceSign with a fault: the comparisons are not strict.
IsPeaceSignLoose(h) ==
    /\ h.y8 <= h.y6
    /\ h.y12 <= h.y10
    /\ h.y16 >= h.y14
    /\ h.y20 >= h.y18
\* lines 95-99
IsPeaceSign(h) ==
    /\ h.y8 < h.y6
    /\ h.y12 < h.y10
    /\ h.y16 > h.y14
    /\ h.y20 > h.y18

\* line 173
EffectiveIntensity(tracked, manual) ==
    Max(tracked, IF manual THEN MANUAL_INTENSITY ELSE 0)
\* DepositFires with a fault: deposits at the threshold itself.
DepositFiresAtThreshold(intensity) == intensity >= DEPOSIT_THRESHOLD
\* line 174
DepositFires(intensity) == intensity > DEPOSIT_THRESHOLD
\* lines 175-177: mirrored mouth pixel and radius 100 + intensity * 150
DepositOp(mouth, intensity, width, height) ==
    [op |-> "deposit",
     x |-> ((FaceUnit - mouth.x) * width) \div (FaceUnit \div Unit),
     y |-> (mouth.y * height) \div (FaceUnit \div Unit),
     r |-> 100 * Unit + intensity * 150]

\* GateOpen with a fault: the gate opens at the delay itself.
GateOpenAtDelay(elapsed) == elapsed >= WIPE_DELAY_MS
\* line 197
GateOpen(elapsed) == elapsed > WIPE_DELAY_MS
\* TargetOf with a fault: x is not mirrored.
TargetUnmirrored(tip, width, height) ==
    Pt(tip.x * width, tip.y * height)
\* lines 199-200: the mirrored pixel-space target
TargetOf(tip, width, height) ==
    Pt((Unit - tip.x) * width, tip.y * height)
\* Approach with a fault: a tenth of the gap instead of SMOOTHING_FACTOR.
ApproachByTenth(s, t) == s + (t - s) \div 10
\* lines 205-206, one coordinate: s += (t - s) * SMOOTHING_FACTOR
Approach(s, t) == s + ((t - s) * SMOOTHING_FACTOR_PCT) \div 100
\* lines 202-207
Smoothed(prev, target) ==
    IF prev = Null THEN target
    ELSE Pt(Approach(prev.x, target.x), Approach(prev.y, target.y))
\* lines 209-220
WipeOp(wx, wy) == [op |-> "erase", x |-> wx, y |-> wy, r |-> 45 * Unit]
\* WipeOps with a fault: the second erase repeats the first.
WipeOpsUnmirrored(s, width, symmetry) ==
    <<WipeOp(s.x, s.y)>>
    \o (IF symmetry THEN <<WipeOp(s.x, s.y)>> ELSE <<>>)
\* lines 222-225
WipeOps(s, width, symmetry) ==
    <<WipeOp(s.x, s.y)>>
    \o (IF symmetry THEN <<WipeOp(width * Unit - s.x, s.y)>> ELSE <<>>)

DrawOp(kind) == [op |-> kind, x |-> 0, y |-> 0, r |-> 0]
\* lines 232-235: the fog surface, as it is by then, drawn at globalAlpha
CompositeOp(fog) ==
    [op |-> "fog", x |-> 0, y |-> 0, r |-> 0, alpha |-> FOG_OPACITY_LIMIT, fog |-> fog]
\* lines 238-251: the particles as they are drawn, each then advanced
SnowOp(drawn) == [op |-> "snow", x |-> 0, y |-> 0, r |-> 0, drawn |-> drawn]
\* FrameOps with a fault: the fog surface is composited before this
\* frame's deposit and erases.
FrameOpsFogFirst(deposit, wipes, fog, drawn, glyph) ==
    <<DrawOp("video"), DrawOp("shine"), CompositeOp(fog)>> \o deposit \o wipes
    \o <<SnowOp(drawn)>> \o glyph
\* lines 156-262: what a render step draws, in order
FrameOps(deposit, wipes, fog, drawn, glyph) ==
    <<DrawOp("video"), DrawOp("shine")>> \o deposit \o wipes
    \o <<CompositeOp(fog), SnowOp(drawn)>> \o glyph

(***************************************************************************)
(* The particles (lines 38-49, 239-251)                                    *)
(***************************************************************************)
\* The six Math.random() draws of one particle.
Draws(dx, dy, dsize, dspeed, dopacity, dwind) ==
    [x |-> dx, y |-> dy, size |-> dsize, speed |-> dspeed,
     opacity |-> dopacity, wind |-> dwind]
\* lines 40-47
SnowflakeOf(d) ==
    [x |-> d.x * 1920,
     y |-> d.y * 1080,
     size |-> 1 * Unit + d.size * 3,
     speed |-> Unit \div 2 + (d.speed * 3) \div 2,
     opacity |-> 200 + d.opacity \div 2,
     wind |-> (d.wind - Unit \div 2) \div 2]
\* The draws of the SNOW_COUNT particles: the array falls into equal groups
\* of particles with the same draws.
\* Every particle starts in the upper part of either viewport.
HighSnow == {Draws(0, 0, 0, 0, 0, 0), Draws(999, 100, 999, 999, 999, 999)}
\* The groups start at the top edge, just above the bottom edge of either
\* viewport, and at the bottom of the 1920x1080 extent.
SpreadSnow ==
    {Draws(0, 0, 0, 0, 0, 0), Draws(500, 277, 999, 999, 0, 999),
     Draws(250, 555, 500, 999, 500, 0), Draws(999, 999, 999, 0, 999, 999)}
SnowSeeds == {HighSnow, SpreadSnow}
\* lines 38-49
InitialSnow(seed) ==
    [f \in {SnowflakeOf(d) : d \in seed} |-> SNOW_COUNT \div Cardinality(seed)]

RECURSIVE Copies(_, _)
Copies(bag, S) ==
    IF S = {} THEN 0
    ELSE LET e == CHOOSE e \in S : TRUE IN bag[e] + Copies(bag, S \ {e})
\* snowflakes.current.length
SnowSize(bag) == Copies(bag, DOMAIN bag)

\* Fallen with a fault: no wrap-around past the bottom edge.
FallenOn(f, width, height, rnd) ==
    [f EXCEPT !.y = f.y + f.speed, !.x = f.x + f.wind]
\* lines 246-250: one particle advanced, rnd the draw of Math.random()
Fallen(f, width, height, rnd) ==
    IF f.y + f.speed > height * Unit
    THEN [f EXCEPT !.y = -10 * Unit, !.x = rnd * width]
    ELSE [f EXCEPT !.y = f.y + f.speed, !.x = f.x + f.wind]
\* lines 239-251: forEach over the array
Snowfall(bag, width, height, rnd) ==
    LET after == {Fallen(f, width, height, rnd) : f \in DOMAIN bag}
    IN [g \in after |->
          Copies(bag, {f \in DOMAIN bag : Fallen(f, width, height, rnd) = g})]

(***************************************************************************)
(* Canvas and animation-frame plumbing                                     *)
(***************************************************************************)
\* lines 270-280: assigning width/height clears a canvas; the fill needs a context
ResizedFog(size, ctx) ==
    [width |-> size[1], height |-> size[2],
     seeded |-> ctx, deposited |-> FALSE, erased |-> FALSE]

\* The dependency values an animate callback closes over (line 265).
CurrentDeps ==
    [breathIntensity |-> breathIntensity,
     isSymmetry |-> isSymmetry,
     peaceDetected |-> peaceDetected]

\* requestAnimationFrame returns a handle no live reference still holds.
NewId(pending, ref) ==
    CHOOSE i \in 1..(Cardinality(pending) + 2) :
        /\ i # ref
        /\ \A q \in pending : q.id # i
        /\ \A j \in 1..(i - 1) : j = ref \/ \E q \in pending : q.id = j
Request(pending, ref, cb) ==
    pending \cup {[id |-> NewId(pending, ref), cb |-> cb, ready |-> FALSE]}
\* Cancelled with a fault: the pending request is left in place.
NotCancelled(pending, ref) == pending
\* line 287: if (requestRef.current) cancelAnimationFrame(requestRef.current)
Cancelled(pending, ref) == {q \in pending : q.id # ref}

\* StopAndClose with a fault: the face tracker is left open.
StopAndCloseHands(rel) == [rel EXCEPT !.camera = @ + 1, !.hands = @ + 1]
\* lines 140-144: camera.stop(); hands.close(); faceMesh.close()
StopAndClose(rel) ==
    [camera |-> rel.camera + 1, hands |-> rel.hands + 1, faceMesh |-> rel.faceMesh + 1]

NoStep == [kind |-> "other"]

InitWith(seeds) ==
    /\ now = FrameMs
    /\ mounted = TRUE
    /\ ctxAvailable = TRUE
    /\ windowSize \in Viewports
    /\ canvas = windowSize
    /\ fogCanvas = ResizedFog(windowSize, TRUE)
    /\ breathIntensity = 0
    /\ handDetected = FALSE
    /\ peaceDetected = FALSE
    /\ isSymmetry = FALSE
    /\ animateDeps = [breathIntensity |-> 0, isSymmetry |-> FALSE, peaceDetected |-> FALSE]
    /\ mouthPos = Pt(FaceUnit \div 2, FaceUnit \div 2)
    /\ indexTipPos = Null
    /\ smoothedIndexTip = Null
    /\ handPresenceTime = 0
    /\ \E seed \in seeds : snowflakes = InitialSnow(seed)
    /\ isBreathingManual = FALSE
    /\ released = [camera |-> 0, hands |-> 0, faceMesh |-> 0]
    /\ requestRef = 1
    /\ raf = {[id |-> 1, cb |-> animateDeps, ready |-> FALSE]}
    /\ stepsInRefresh = 0
    /\ step = NoStep
    /\ seenSince = 0
    /\ wiped = FALSE
    /\ heldAt = Null
    /\ faceLost = FALSE
    /\ chase = Null
\* Mounted, with the particles high in the viewport.
Init == InitWith({HighSnow})

(***************************************************************************)
(* The environment: display refreshes, the 2D context                      *)
(***************************************************************************)
\* The browser runs the callbacks that are due at a display refresh before
\* any later task: while one is due, only animate is enabled.
Idle == \A q \in raf : ~q.ready

\* A display refresh, d ms after the last one and not later than limit: the
\* callbacks requested since the last one become due.
TickUntil(d, limit) ==
    /\ now + d <= limit
    /\ Idle
    /\ now' = now + d
    /\ raf' = {[q EXCEPT !.ready = TRUE] : q \in raf}
    /\ stepsInRefresh' = 0
    /\ step' = NoStep
    /\ UNCHANGED <<mounted, ctxAvailable, windowSize, canvas, fogCanvas,
                   breathIntensity, handDetected, peaceDetected, isSymmetry,
                   animateDeps, mouthPos, indexTipPos, smoothedIndexTip,
                   handPresenceTime, snowflakes, isBreathingManual, released,
                   requestRef, seenSince, wiped, heldAt, faceLost, chase>>
TickBy(d) == TickUntil(d, MaxTime)
Tick == TickBy(FrameMs)
\* A refresh after the page was throttled for longer than the wipe delay.
LateTick == TickBy(WIPE_DELAY_MS + FrameMs)

\* getContext('2d') starts or stops returning null.
ContextChange ==
    /\ mounted
    /\ Idle
    /\ ctxAvailable' = ~ctxAvailable
    /\ step' = NoStep
    /\ UNCHANGED <<now, mounted, windowSize, canvas, fogCanvas,
                   breathIntensity, handDetected, peaceDetected, isSymmetry,
                   animateDeps, mouthPos, indexTipPos, smoothedIndexTip,
                   handPresenceTime, snowflakes, isBreathingManual, released,
                   requestRef, raf, stepsInRefresh, seenSince, wiped, heldAt,
                   faceLost, chase>>

(***************************************************************************)
(* Tracker callbacks (lines 87-128)                                        *)
(***************************************************************************)
\* TimerAfterNoHand with a fault: the timer is left running.
TimerKept(timer) == timer
\* line 104: the presence timer after a result without a hand
TimerAfterNoHand(timer) == 0

\* lines 88-99
handsOnResultsHand(h) ==
    /\ handDetected' = TRUE
    /\ indexTipPos' = Pt(h.x8, h.y8)
    /\ peaceDetected' = IsPeaceSign(h)
    /\ heldAt' = LET here == [tip |-> Pt(h.x8, h.y8), size |-> windowSize]
                 IN IF heldAt = Null \/ heldAt = here THEN here ELSE Moved
    /\ step' = [kind |-> "hands", landmarks |-> h]
    /\ UNCHANGED <<handPresenceTime, seenSince, wiped>>

\* lines 100-105
handsOnResultsNoHand ==
    /\ handDetected' = FALSE
    /\ peaceDetected' = FALSE
    /\ indexTipPos' = Null
    /\ handPresenceTime' = TimerAfterNoHand(handPresenceTime)
    /\ seenSince' = 0
    /\ wiped' = FALSE
    /\ step' = [kind |-> "hands", landmarks |-> Null]
    /\ UNCHANGED heldAt

handsOnResultsOf(shapes) ==
    /\ mounted
    /\ Idle
    /\ \/ \E h \in shapes : handsOnResultsHand(h)
       \/ handsOnResultsNoHand
    /\ UNCHANGED <<now, mounted, ctxAvailable, windowSize, canvas, fogCanvas,
                   breathIntensity, isSymmetry, animateDeps, mouthPos,
                   smoothedIndexTip, snowflakes, isBreathingManual, released,
                   requestRef, raf, stepsInRefresh, faceLost, chase>>
handsOnResults == handsOnResultsOf(HandShapes)

\* lines 109-125
faceMeshOnResultsFace(f) ==
    /\ breathIntensity' = IntensityOf(LipDistance(f))
    /\ mouthPos' = MouthCenter(f)
    /\ faceLost' = (faceLost /\ ~DepositFires(breathIntensity'))
    /\ step' = [kind |-> "face", landmarks |-> f, mouthBefore |-> mouthPos]

\* lines 125-127
faceMeshOnResultsNoFace ==
    /\ breathIntensity' = 0
    /\ UNCHANGED mouthPos
    /\ faceLost' = TRUE
    /\ step' = [kind |-> "face", landmarks |-> Null, mouthBefore |-> mouthPos]

faceMeshOnResultsOf(faces) ==
    /\ mounted
    /\ Idle
    /\ \/ \E f \in faces : faceMeshOnResultsFace(f)
       \/ faceMeshOnResultsNoFace
    /\ UNCHANGED <<now, mounted, ctxAvailable, windowSize, canvas, fogCanvas,
                   handDetected, peaceDetected, isSymmetry, animateDeps,
                   indexTipPos, smoothedIndexTip, handPresenceTime, snowflakes,
                   isBreathingManual, released, requestRef, raf, stepsInRefresh,
                   seenSince, wiped, heldAt, chase>>
faceMeshOnResults == faceMeshOnResultsOf(Faces)

(***************************************************************************)
(* User input                                                              *)
(***************************************************************************)
KeyCodes == {"Space", "KeyA"}

\* lines 51-56
handleKey(code, down) ==
    /\ mounted
    /\ Idle
    /\ isBreathingManual' = IF code = "Space" THEN down ELSE isBreathingManual
    /\ step' = NoStep
    /\ UNCHANGED <<now, mounted, ctxAvailable, windowSize, canvas, fogCanvas,
                   breathIntensity, handDetected, peaceDetected, isSymmetry,
                   animateDeps, mouthPos, indexTipPos, smoothedIndexTip,
                   handPresenceTime, snowflakes, released, requestRef, raf,
                   stepsInRefresh, seenSince, wiped, heldAt, faceLost, chase>>
handleKeyDown == \E code \in KeyCodes : handleKey(code, TRUE)
handleKeyUp == \E code \in KeyCodes : handleKey(code, FALSE)

\* src/App.tsx line 82
onToggleSymmetry ==
    /\ mounted
    /\ Idle
    /\ isSymmetry' = ~isSymmetry
    /\ step' = NoStep
    /\ UNCHANGED <<now, mounted, ctxAvailable, windowSize, canvas, fogCanvas,
                   breathIntensity, handDetected, peaceDetected,
                   animateDeps, mouthPos, indexTipPos, smoothedIndexTip,
                   handPresenceTime, snowflakes, isBreathingManual, released,
                   requestRef, raf, stepsInRefresh, seenSince, wiped, heldAt,
                   faceLost, chase>>

(***************************************************************************)
(* The resize effect (lines 267-289)                                       *)
(***************************************************************************)
\* lines 268-281: resize(), as the window's listener
windowResize ==
    /\ mounted
    /\ Idle
    /\ \E size \in Viewports \ {windowSize} :
        /\ windowSize' = size
        /\ canvas' = size
        /\ fogCanvas' = ResizedFog(size, ctxAvailable)
    /\ heldAt' = IF heldAt = Null THEN Null ELSE Moved
    /\ step' = [kind |-> "resize", pending |-> raf]
    /\ UNCHANGED <<now, mounted, ctxAvailable,
                   breathIntensity, handDetected, peaceDetected, isSymmetry,
                   animateDeps, mouthPos, indexTipPos, smoothedIndexTip,
                   handPresenceTime, snowflakes, isBreathingManual, released,
                   requestRef, raf, stepsInRefresh, seenSince, wiped,
                   faceLost, chase>>

\* React re-renders after a state change; animate gets a new identity when a
\* dependency changed (line 265), so the effect's cleanup (lines 285-288) and
\* then the effect itself (lines 282-284) run.
effectRerun ==
    /\ mounted
    /\ Idle
    /\ CurrentDeps # animateDeps
    /\ animateDeps' = CurrentDeps
    /\ canvas' = windowSize
    /\ fogCanvas' = ResizedFog(windowSize, ctxAvailable)
    /\ LET kept == Cancelled(raf, requestRef)
       IN /\ requestRef' = NewId(kept, requestRef)
          /\ raf' = Request(kept, requestRef, CurrentDeps)
    /\ step' = NoStep
    /\ UNCHANGED <<now, mounted, ctxAvailable, windowSize,
                   breathIntensity, handDetected, peaceDetected, isSymmetry,
                   mouthPos, indexTipPos, smoothedIndexTip,
                   handPresenceTime, snowflakes, isBreathingManual, released,
                   stepsInRefresh, seenSince, wiped, heldAt, faceLost, chase>>

\* Unmount: the cleanups of the three effects, lines 59-62 (the key
\* listeners go: handleKey needs mounted), 140-144 and 285-288
unmount ==
    /\ mounted
    /\ Idle
    /\ mounted' = FALSE
    /\ released' = StopAndClose(released)
    /\ raf' = Cancelled(raf, requestRef)
    /\ step' = [kind |-> "unmount", pending |-> raf]
    /\ UNCHANGED <<now, ctxAvailable, windowSize, canvas, fogCanvas,
                   breathIntensity, handDetected, peaceDetected, isSymmetry,
                   animateDeps, mouthPos, indexTipPos, smoothedIndexTip,
                   handPresenceTime, snowflakes, isBreathingManual, requestRef,
                   stepsInRefresh, seenSince, wiped, heldAt, faceLost, chase>>

(***************************************************************************)
(* The render step (lines 148-265)                                         *)
(***************************************************************************)
\* lines 149-152: canvasRef.current is null once unmounted
CanDraw == mounted /\ ctxAvailable

\* lines 149-152: the early return
animateSkip(r) ==
    /\ ~CanDraw
    /\ raf' = raf \ {r}
    /\ step' = [kind |-> "animate", drew |-> FALSE]
    /\ UNCHANGED <<fogCanvas, smoothedIndexTip, handPresenceTime, snowflakes,
                   requestRef, seenSince, wiped, heldAt, chase>>

\* lines 154-264 (the two reads of performance.now(), lines 194 and 196,
\* are one reading of the clock)
animateDraw(r) ==
    /\ CanDraw
    /\ LET width == canvas[1]
           height == canvas[2]
           intensity == EffectiveIntensity(r.cb.breathIntensity, isBreathingManual)
           deposit == IF DepositFires(intensity)
                      THEN <<DepositOp(mouthPos, intensity, width, height)>>
                      ELSE <<>>
           tipSeen == indexTipPos # Null
           since == IF handPresenceTime = 0 THEN now ELSE handPresenceTime
           elapsed == now - since
           wiping == tipSeen /\ GateOpen(elapsed)
           target == IF tipSeen THEN TargetOf(indexTipPos, width, height) ELSE Null
           smoothed == IF ~tipSeen THEN Null
                       ELSE IF wiping THEN Smoothed(smoothedIndexTip, target)
                       ELSE smoothedIndexTip
           wipes == IF wiping THEN WipeOps(smoothed, width, r.cb.isSymmetry) ELSE <<>>
           glyph == IF r.cb.peaceDetected THEN <<DrawOp("glyph")>> ELSE <<>>
           fog == [fogCanvas EXCEPT
                      !.deposited = @ \/ deposit # <<>>,
                      !.erased = @ \/ wipes # <<>>]
           rest == raf \ {r}
       IN /\ handPresenceTime' = IF tipSeen THEN since ELSE handPresenceTime
          /\ smoothedIndexTip' = smoothed
          /\ fogCanvas' = fog
          /\ \E rnd \in Randoms : snowflakes' = Snowfall(snowflakes, width, height, rnd)
          /\ chase' = IF ~tipSeen THEN Null
                      ELSE IF ~wiping THEN chase
                      ELSE IF chase # Null /\ chase.target = target
                      THEN [chase EXCEPT !.steps = @ + 1]
                      ELSE [target |-> target,
                            from |-> IF smoothedIndexTip = Null THEN target
                                     ELSE smoothedIndexTip,
                            steps |-> 1]
          /\ requestRef' = NewId(rest, requestRef)
          /\ raf' = Request(rest, requestRef, r.cb)
          /\ seenSince' = IF tipSeen /\ seenSince = 0 THEN now ELSE seenSince
          /\ heldAt' = IF tipSeen THEN heldAt ELSE Null
          /\ wiped' = IF tipSeen THEN wiped \/ wipes # <<>> ELSE wiped
          /\ step' = [kind |-> "animate", drew |-> TRUE,
                      firstWipe |-> tipSeen /\ ~wiped /\ wipes # <<>>,
                      ops |-> FrameOps(deposit, wipes, fog, snowflakes, glyph),
                      deps |-> r.cb,
                      target |-> target,
                      smoothedBefore |-> smoothedIndexTip]

animate ==
    /\ \E r \in raf :
        /\ r.ready
        /\ animateSkip(r) \/ animateDraw(r)
    /\ stepsInRefresh' = stepsInRefresh + 1
    /\ UNCHANGED <<now, mounted, ctxAvailable, windowSize, canvas,
                   breathIntensity, handDetected, peaceDetected, isSymmetry,
                   animateDeps, mouthPos, indexTipPos, isBreathingManual,
                   released, faceLost>>

(***************************************************************************)
(* Specifications                                                          *)
(***************************************************************************)
\* The wipe controller: hand results, render steps and symmetry, in a
\* viewport of either size.
NextWipe ==
    \/ Tick
    \/ handsOnResults
    \/ onToggleSymmetry
    \/ effectRerun
    \/ animate

SpecWipe == Init /\ [][NextWipe]_vars

\* The whole component: every handler, the trackers reporting one hand
\* shape and one face, or none, and refreshes that come late (a throttled
\* page).
Next ==
    \/ LateTick
    \/ ContextChange
    \/ handsOnResultsOf({PeaceHand})
    \/ faceMeshOnResultsOf({OpenLips})
    \/ handleKeyDown
    \/ handleKeyUp
    \/ onToggleSymmetry
    \/ windowResize
    \/ effectRerun
    \/ unmount
    \/ animate

Spec == Init /\ [][Next]_vars

\* The breath mapping: face results over every lip distance.
NextLips == faceMeshOnResults

SpecLips == Init /\ [][NextLips]_vars

\* The breath: face results around the deposit threshold, the manual key
\* and render steps.
NextBreath ==
    \/ Tick
    \/ faceMeshOnResultsOf({ClosedLips, ThresholdLips, PartedLips, OpenLips, AskewLips})
    \/ handleKeyDown
    \/ handleKeyUp
    \/ effectRerun
    \/ animate

SpecBreath == Init /\ [][NextBreath]_vars

\* The particles: either set of draws at mount, render steps and viewport
\* changes.
NextSnow ==
    \/ Tick
    \/ windowResize
    \/ animate

SpecSnow == InitWith(SnowSeeds) /\ [][NextSnow]_vars

\* The smoothed fingertip following a hand that moves during the first
\* MaxTicks refreshes and is held still from then on.
HandMoves == now <= MaxTime /\ handsOnResultsOf({PeaceHand, PointingHand})
LongTick == TickUntil(FrameMs, SmoothTime)
NextSmooth ==
    \/ LongTick
    \/ HandMoves
    \/ animate

SpecSmooth == Init /\ [][NextSmooth]_vars

(***************************************************************************)
(* What a render step did, read off the observation variables              *)
(***************************************************************************)
IsErase(o) == o.op = "erase"
StepDrew == step.kind = "animate" /\ step.drew
\* The erases of the render step just taken, in order.
StepErases == IF StepDrew THEN SelectSeq(step.ops, IsErase) ELSE <<>>
\* The render step just taken saw the fingertip; then seenSince is the time
\* of the first render step that saw it in this spell of presence.
StepSawTip == StepDrew /\ indexTipPos # Null
Presence == now - seenSince

(***************************************************************************)
(* C1. Wipe gating, as claimed: with the fingertip first seen by a render  *)
(* step at t0 and present since, a render step at t erases if and only if  *)
(* t - t0 >= 1000 ms (1000 ms itself included).                            *)
(***************************************************************************)
WipeGateFromDelay ==
    StepSawTip =>
        /\ Presence < WIPE_DELAY_MS => StepErases = <<>>
        /\ Presence >= WIPE_DELAY_MS => StepErases # <<>>

\* C1, amended: a render step that draws its frame at t erases if and only
\* if t - t0 > 1000 ms; at exactly 1000 ms the gate is still closed.
WipeGateAfterDelay ==
    StepSawTip => (StepErases # <<>> <=> Presence > WIPE_DELAY_MS)

\* C1 witness: the first refresh past the delay, and the step erased.
WipeGateOpened ==
    /\ StepSawTip
    /\ Presence = WIPE_DELAY_MS + FrameMs
    /\ StepErases # <<>>

(***************************************************************************)
(* C2. Gap reset: once a hand result reported no hand the presence timer   *)
(* is unset until a render step sees the fingertip again (also when the    *)
(* hand is back before that step), and every erase comes at least 1000 ms  *)
(* after the first render step that saw the fingertip again.               *)
(***************************************************************************)
GapRestartsDelay ==
    /\ indexTipPos = Null => handPresenceTime = 0
    /\ seenSince = 0 => handPresenceTime = 0
    /\ StepErases # <<>> => seenSince # 0 /\ now >= seenSince + WIPE_DELAY_MS

\* C2 witness: the first erase of a spell of presence finds a smoothed
\* fingertip left from the spell before: the hand was lost and came back
\* between two render steps, and the delay ran again before this erase.
EraseAfterGap ==
    /\ StepDrew
    /\ step.firstWipe
    /\ step.smoothedBefore # Null
    /\ Presence = WIPE_DELAY_MS + FrameMs

(***************************************************************************)
(* C3. Fog persistence, as claimed: the fog surface loses its deposits and *)
(* erasures only in a step that changes the viewport size.                 *)
(***************************************************************************)
FogDiscarded ==
    \/ fogCanvas.deposited /\ ~fogCanvas'.deposited
    \/ fogCanvas.erased /\ ~fogCanvas'.erased
FogClearedOnlyOnResize ==
    [][FogDiscarded => windowSize' # windowSize]_vars

(***************************************************************************)
(* C4. Symmetric wipe: a render step that erases at the smoothed position  *)
(* (x, y) erases exactly once when the step's symmetry mode is off, and    *)
(* exactly twice, the second time at (viewportWidth - x, y), when it is on.*)
(***************************************************************************)
SymmetricWipe ==
    StepErases # <<>> =>
        /\ StepErases[1].x = smoothedIndexTip.x
        /\ StepErases[1].y = smoothedIndexTip.y
        /\ IF step.deps.isSymmetry
           THEN /\ Len(StepErases) = 2
                /\ StepErases[2].x = windowSize[1] * Unit - smoothedIndexTip.x
                /\ StepErases[2].y = smoothedIndexTip.y
           ELSE Len(StepErases) = 1

\* C4 witness: a mirrored pair of erases at two different places.
MirroredPairErased ==
    /\ StepErases # <<>>
    /\ step.deps.isSymmetry
    /\ Len(StepErases) = 2
    /\ StepErases[2].x # StepErases[1].x

(***************************************************************************)
(* C5. Symmetry toggle, as claimed: a step that changes the symmetry mode  *)
(* (of App, or the one the render callback runs with) leaves the fog       *)
(* surface, the presence timer, the smoothed fingertip and the gesture     *)
(* state as they were.                                                     *)
(***************************************************************************)
SymmetryChanges ==
    \/ isSymmetry' # isSymmetry
    \/ animateDeps'.isSymmetry # animateDeps.isSymmetry
ToggleOnlyChangesFanOut ==
    [][SymmetryChanges =>
          UNCHANGED <<fogCanvas, handPresenceTime, smoothedIndexTip, indexTipPos,
                      handDetected, peaceDetected, breathIntensity, mouthPos,
                      isBreathingManual>>]_vars

(***************************************************************************)
(* C6. Render loop liveness, as claimed: while mounted, after a render     *)
(* step (one that returned early included) another one is requested for a  *)
(* later display refresh.                                                  *)
(***************************************************************************)
StepRequestsNext ==
    (mounted /\ step.kind = "animate") => \E q \in raf : ~q.ready

(***************************************************************************)
(* C7. At most one render step is pending at any time and at most one runs *)
(* in a display refresh.                                                   *)
(***************************************************************************)
OneRenderStep ==
    /\ Cardinality(raf) <= 1
    /\ stepsInRefresh <= 1

\* C7 witness: the effect re-ran (symmetry now on) in a refresh whose render
\* step had already run and requested the next one; one request is pending.
RerunAfterStep ==
    /\ stepsInRefresh = 1
    /\ animateDeps.isSymmetry
    /\ \E q \in raf : q.cb = animateDeps /\ ~q.ready /\ requestRef = q.id

(***************************************************************************)
(* C8. Smoothed-state reset, as claimed: the first erase after the         *)
(* fingertip was acquired again is at exactly the mirrored target.         *)
(***************************************************************************)
FirstEraseAtTarget ==
    (StepDrew /\ step.firstWipe) =>
        /\ StepErases[1].x = step.target.x
        /\ StepErases[1].y = step.target.y

(***************************************************************************)
(* C9. End-to-end wipe: in a viewport of 800x600 with symmetry off and     *)
(* every hand result since the smoothed fingertip was last absent at       *)
(* (0.2, 0.5), a render step erases nothing before 1000 ms of presence and *)
(* exactly once, at (640, 300) px, once the gate is open, and the smoothed *)
(* position is never anywhere else; and whenever a step erases from an     *)
(* absent smoothed state it erases at ((1 - nx) * width, ny * height).     *)
(***************************************************************************)
HeldAtScenario == heldAt = [tip |-> Pt(200, 500), size |-> <<800, 600>>]
EndToEndWipe ==
    /\ (StepSawTip /\ HeldAtScenario /\ ~step.deps.isSymmetry) =>
          /\ Presence < WIPE_DELAY_MS => StepErases = <<>>
          /\ Presence > WIPE_DELAY_MS =>
                StepErases = <<[op |-> "erase", x |-> 640000, y |-> 300000, r |-> 45000]>>
          /\ smoothedIndexTip \in {Null, Pt(640000, 300000)}
          /\ step.smoothedBefore \in {Null, Pt(640000, 300000)}
    /\ (StepErases # <<>> /\ step.smoothedBefore = Null) =>
          /\ StepErases[1].x = (1000 - indexTipPos.x) * windowSize[1]
          /\ StepErases[1].y = indexTipPos.y * windowSize[2]

\* C9 witness: the scenario's second erase, the smoothed position unmoved.
ScenarioErasedAgain ==
    /\ StepSawTip
    /\ HeldAtScenario
    /\ ~step.deps.isSymmetry
    /\ step.smoothedBefore = Pt(640000, 300000)
    /\ StepErases = <<[op |-> "erase", x |-> 640000, y |-> 300000, r |-> 45000]>>

(***************************************************************************)
(* C10. Peace-sign flag: after a hand result the flag is true iff a hand   *)
(* is present with y[8] < y[6], y[12] < y[10], y[16] > y[14] and           *)
(* y[20] > y[18]; tips 0.3/0.3/0.5/0.5 against joints 0.4 give true, the   *)
(* ring tip at 0.3 gives false.                                            *)
(***************************************************************************)
PeaceFlagFromLandmarks ==
    step.kind = "hands" =>
        LET lm == step.landmarks
        IN /\ peaceDetected <=>
                /\ lm # Null
                /\ lm.y8 < lm.y6 /\ lm.y12 < lm.y10
                /\ lm.y16 > lm.y14 /\ lm.y20 > lm.y18
           /\ lm = Hand(700, 300, 300, 500, 500) => peaceDetected
           /\ lm = Hand(700, 300, 300, 300, 500) => ~peaceDetected

\* C10 witness: the hand result with the peace sign has set the flag.
PeaceSignSeen ==
    /\ step.kind = "hands"
    /\ step.landmarks = Hand(700, 300, 300, 500, 500)
    /\ peaceDetected

(***************************************************************************)
(* What a face result did                                                  *)
(***************************************************************************)
StepSawFace == step.kind = "face" /\ step.landmarks # Null
StepLostFace == step.kind = "face" /\ step.landmarks = Null

(***************************************************************************)
(* C11. Breath intensity mapping: the intensity a face result sets for the *)
(* lip distance d is clamp((d - 0.01) * 15, 0, 1): 0 up to d = 0.01,       *)
(* (d - 0.01) * 15 above it and 1 once that reaches 1; it is within [0, 1] *)
(* and no smaller distance maps to more; d = 0.01 gives 0, d = 0.04 gives  *)
(* 0.45 and d = 0.077 gives 1.  (d is in 1/3000, the intensity in 1/1000.) *)
(***************************************************************************)
BreathMapping ==
    StepSawFace =>
        LET d == LipDistance(step.landmarks)
        IN /\ breathIntensity =
                IF d <= 30 THEN 0
                ELSE IF (d - 30) * 5 >= 1000 THEN 1000
                ELSE (d - 30) * 5
           /\ breathIntensity >= 0 /\ breathIntensity <= 1000
           /\ \A e \in 0..d : IntensityOf(e) <= breathIntensity
           /\ d = 30 => breathIntensity = 0
           /\ d = 120 => breathIntensity = 450
           /\ d = 231 => breathIntensity = 1000

\* C11 witness: lips 0.077 apart set the intensity to 1.
WideLipsSaturate ==
    /\ StepSawFace
    /\ step.landmarks.lower.y - step.landmarks.upper.y = 231
    /\ step.landmarks.lower.x = step.landmarks.upper.x
    /\ breathIntensity = Unit

(***************************************************************************)
(* C12. Particle bounds, as claimed: there are always exactly 60           *)
(* particles, each of size within [0, 4] and opacity within [0.2, 0.7],    *)
(* and in every reachable state each particle's y is at most the viewport  *)
(* height plus that particle's speed.                                      *)
(***************************************************************************)
IsSnow(o) == o.op = "snow"
\* The particles the render step just taken drew, as they were before it
\* advanced them.
StepSnow == SelectSeq(step.ops, IsSnow)[1].drawn
SizeAndOpacityInRange ==
    /\ SnowSize(snowflakes) = 60
    /\ \A f \in DOMAIN snowflakes :
          /\ f.size >= 0 /\ f.size <= 4 * Unit
          /\ f.opacity >= 200 /\ f.opacity <= 700
ParticleBoundsAlways ==
    /\ SizeAndOpacityInRange
    /\ \A f \in DOMAIN snowflakes : f.y <= windowSize[2] * Unit + f.speed

\* C12, amended: there are always exactly 60 particles, each of size within
\* [0, 4] and opacity within [0.2, 0.7], and right after every render step
\* that draws each particle's y is at most the viewport height plus that
\* particle's speed (at mount, and after the viewport shrank, a particle may
\* be further down until the next render step wraps it).
ParticleBoundsAfterStep ==
    /\ SizeAndOpacityInRange
    /\ StepDrew =>
          \A f \in DOMAIN snowflakes : f.y <= windowSize[2] * Unit + f.speed

\* C12 witness: a render step drew a particle that was past the bottom edge
\* and wrapped it to the top, and advanced another one that stayed inside.
ParticleWrapped ==
    /\ StepDrew
    /\ \E f \in DOMAIN StepSnow : f.y > windowSize[2] * Unit
    /\ \E f \in DOMAIN snowflakes : f.y = -10 * Unit
    /\ \E f \in DOMAIN snowflakes : f.y > 0

(***************************************************************************)
(* C13. Face loss, as claimed: a face result without a face sets the       *)
(* tracked intensity to 0 and leaves the mouth point as it was, and from   *)
(* then until a face result gives an intensity above 0.1 no render step    *)
(* deposits fog unless manual breath is active.                            *)
(***************************************************************************)
IsDeposit(o) == o.op = "deposit"
\* The deposits of the render step just taken.
StepDeposits == IF StepDrew THEN SelectSeq(step.ops, IsDeposit) ELSE <<>>
FaceLossStopsDeposit ==
    /\ StepLostFace => breathIntensity = 0 /\ mouthPos = step.mouthBefore
    /\ (StepDrew /\ faceLost /\ ~isBreathingManual) => StepDeposits = <<>>

(***************************************************************************)
(* C14. Deposit condition: with the tracked intensity the render step's    *)
(* callback holds and the manual-breath flag, a render step that draws     *)
(* deposits fog if and only if max(tracked, manual ? 0.8 : 0) > 0.1, once, *)
(* centred at ((1 - mx) * width, my * height) with radius                  *)
(* 100 + intensity * 150; so it deposits whenever manual breath is active, *)
(* and does not at an intensity of exactly 0.1.                            *)
(***************************************************************************)
DepositCondition ==
    StepDrew =>
        LET tracked == step.deps.breathIntensity
            manual == IF isBreathingManual THEN 800 ELSE 0
            intensity == IF tracked >= manual THEN tracked ELSE manual
        IN /\ StepDeposits # <<>> <=> intensity > 100
           /\ StepDeposits # <<>> =>
                 /\ Len(StepDeposits) = 1
                 /\ 3 * StepDeposits[1].x = (3000 - mouthPos.x) * windowSize[1]
                 /\ 3 * StepDeposits[1].y = mouthPos.y * windowSize[2]
                 /\ StepDeposits[1].r = 100 * 1000 + intensity * 150
           /\ isBreathingManual => StepDeposits # <<>>
           /\ intensity = 100 => StepDeposits = <<>>

\* C14 witness: a render step at a tracked intensity of exactly 0.1, manual
\* breath off, deposited nothing on a fog surface that holds a deposit of
\* an earlier step, made away from the middle of the frame.
NoDepositAtThreshold ==
    /\ StepDrew
    /\ step.deps.breathIntensity = 100
    /\ ~isBreathingManual
    /\ StepDeposits = <<>>
    /\ fogCanvas.deposited
    /\ mouthPos # Pt(1500, 1500)

(***************************************************************************)
(* C15. Hand absence transition: right after a hand result without a hand  *)
(* the fingertip is absent, the presence timer unset and the hand-detected *)
(* and peace flags false; in every state an absent fingertip implies an    *)
(* unset presence timer; and a render step that erased leaves the          *)
(* fingertip present and the presence timer set.                           *)
(***************************************************************************)
HandAbsence ==
    /\ (step.kind = "hands" /\ step.landmarks = Null) =>
          /\ indexTipPos = Null
          /\ handPresenceTime = 0
          /\ ~handDetected
          /\ ~peaceDetected
    /\ indexTipPos = Null => handPresenceTime = 0
    /\ StepErases # <<>> => indexTipPos # Null /\ handPresenceTime # 0

\* C15 witness: the hand is reported lost after render steps that erased,
\* while the peace flag was set.
HandLostWhileWiping ==
    /\ step.kind = "hands"
    /\ step.landmarks = Null
    /\ wiped = FALSE
    /\ smoothedIndexTip # Null
    /\ fogCanvas.erased
    /\ animateDeps.peaceDetected

(***************************************************************************)
(* C16. Resize, as claimed: right after a viewport resize event the main   *)
(* canvas and the fog surface have the new viewport size, the fog surface  *)
(* holds the seed fill and nothing else, and a render step is pending.     *)
(***************************************************************************)
ResizeReseedsAndSchedules ==
    step.kind = "resize" =>
        /\ canvas = windowSize
        /\ fogCanvas.width = windowSize[1] /\ fogCanvas.height = windowSize[2]
        /\ fogCanvas.seeded /\ ~fogCanvas.deposited /\ ~fogCanvas.erased
        /\ raf # {}

(***************************************************************************)
(* C17. Teardown: the step that unmounts the component stops the camera    *)
(* and closes both trackers, each for the first and only time, and leaves  *)
(* no request of a render step pending; from then on no render step runs,  *)
(* the fog surface is left as it is and nothing is stopped or closed again.*)
(***************************************************************************)
TornDown ==
    /\ ~mounted
    /\ raf = {}
    /\ released = [camera |-> 1, hands |-> 1, faceMesh |-> 1]
TeardownStops ==
    [][/\ mounted => released = [camera |-> 0, hands |-> 0, faceMesh |-> 0]
       /\ ~mounted' => TornDown'
       /\ ~mounted => /\ step'.kind # "animate"
                      /\ fogCanvas' = fogCanvas
                      /\ TornDown']_vars

\* C17 witness: the component was unmounted while a render step was
\* requested and the fog surface held a deposit and an erasure; the request
\* is gone.
UnmountedWhilePending ==
    /\ step.kind = "unmount"
    /\ step.pending # {}
    /\ TornDown
    /\ fogCanvas.deposited
    /\ fogCanvas.erased

(***************************************************************************)
(* C18. Frame order: a render step that draws does, in this order: the     *)
(* video background, the glass shine, the fog deposit (if any), the fog    *)
(* erases (if any), the fog surface composited at opacity 0.85, the        *)
(* particles drawn and advanced, the peace-sign glyph; the fog composited  *)
(* is the fog surface with this step's deposit and erases on it, and the   *)
(* glyph is drawn if and only if the peace flag the step's callback holds  *)
(* is set.                                                                 *)
(***************************************************************************)
Rank(o) ==
    CASE o.op = "video" -> 1
      [] o.op = "shine" -> 2
      [] o.op = "deposit" -> 3
      [] o.op = "erase" -> 4
      [] o.op = "fog" -> 5
      [] o.op = "snow" -> 6
      [] o.op = "glyph" -> 7
StepOps(kind) == {i \in 1..Len(step.ops) : step.ops[i].op = kind}
FrameOrder ==
    StepDrew =>
        /\ \A i, j \in 1..Len(step.ops) :
              i < j => \/ Rank(step.ops[i]) < Rank(step.ops[j])
                       \/ step.ops[i].op = "erase" /\ step.ops[j].op = "erase"
        /\ \A kind \in {"video", "shine", "fog", "snow"} :
              Cardinality(StepOps(kind)) = 1
        /\ \A i \in StepOps("fog") :
              /\ step.ops[i].alpha = 850
              /\ step.ops[i].fog = fogCanvas
              /\ StepOps("deposit") # {} => step.ops[i].fog.deposited
              /\ StepOps("erase") # {} => step.ops[i].fog.erased
        /\ \A i \in StepOps("snow") :
              /\ step.ops[i].drawn # snowflakes
              /\ SnowSize(step.ops[i].drawn) = SnowSize(snowflakes)
        /\ Cardinality(StepOps("glyph")) = IF step.deps.peaceDetected THEN 1 ELSE 0

\* C18 witness: a render step that deposited and erased on a fog surface
\* that held neither, and drew the glyph.
FullFrame ==
    /\ StepDrew
    /\ StepOps("deposit") # {}
    /\ StepOps("erase") # {}
    /\ StepOps("glyph") # {}
    /\ step.firstWipe
    /\ fogCanvas.deposited /\ fogCanvas.erased

(***************************************************************************)
(* C19. Smoothing convergence: a render step that erases with a smoothed   *)
(* position to start from moves it, in x and in y, by 0.15 of the gap to   *)
(* the target (to the thousandth of a pixel), towards the target and not   *)
(* past it, so the gap does not grow; and when 29 erasing render steps in  *)
(* a row had the same target, the gap is at most 1% of the gap before the  *)
(* first of them.                                                          *)
(***************************************************************************)
Abs(n) == IF n >= 0 THEN n ELSE -n
\* One coordinate of a step from before to after, towards target.
MovedTowards(before, after, target) ==
    LET gap == target - before
        left == target - after
    IN /\ 100 * (after - before) <= 15 * gap
       /\ 100 * (after - before) > 15 * gap - 100
       /\ Abs(left) <= Abs(gap)
       /\ gap >= 0 => left >= 0
       /\ gap <= 0 => left <= 0
SmoothingConverges ==
    /\ (StepErases # <<>> /\ step.smoothedBefore # Null) =>
          /\ MovedTowards(step.smoothedBefore.x, smoothedIndexTip.x, step.target.x)
          /\ MovedTowards(step.smoothedBefore.y, smoothedIndexTip.y, step.target.y)
    /\ (StepErases # <<>> /\ chase.steps >= 29) =>
          /\ 100 * Abs(chase.target.x - smoothedIndexTip.x)
                <= Abs(chase.target.x - chase.from.x)
          /\ 100 * Abs(chase.target.y - smoothedIndexTip.y)
                <= Abs(chase.target.y - chase.from.y)

\* C19 witness: the 29th erasing step after the hand moved from one side of
\* the frame to the other; one step earlier the gap was still above 1%.
ConvergedAfterMove ==
    /\ StepErases # <<>>
    /\ chase.steps = 29
    /\ Abs(chase.target.x - chase.from.x) >= 100 * Unit
    /\ smoothedIndexTip # chase.target
    /\ 100 * Abs(chase.target.x - step.smoothedBefore.x)
          > Abs(chase.target.x - chase.from.x)

====
